---- MODULE Spec2Model ----
(***************************************************************************)
(* Metamusic: the navigation/edit state machine of src/app.rs driven by    *)
(* the event loop of src/main.rs, over a directory of tagged audio files   *)
(* whose tags are read and rewritten by src/functions.rs.                  *)
(*                                                                         *)
(* Strings are sequences of one-character strings.  An Option is a         *)
(* sequence of length 0 (None) or 1 (Some).                                *)
(***************************************************************************)
EXTENDS Integers, Sequences, FiniteSets, TLC

VARIABLES files, selected_file, selected_field, input_buffer, current_field,
          current_file, mode, message, album_art_cache,
          disk,        \* the tag container of every file of the directory
          pc,          \* position of run_app: "draw", "read", "quit", "error"
          nwrites,     \* observer: number of modify_field calls so far
          calls,       \* observer: the modify_field calls of the latest step
          session,     \* observer: file and field selected on entering Editing
          art_ops,     \* observer: the artwork cache calls of the latest step
          decodes,     \* observer: per file, the image decodes run so far
          dir,         \* the path get_mp3_files is called on, and its entries
          enum_result, \* the result of the latest get_mp3_files call, if any
          terminal     \* the modes of the terminal, and what main did to them

vars == <<files, selected_file, selected_field, input_buffer, current_field,
          current_file, mode, message, album_art_cache, disk, pc,
          nwrites, calls, session, art_ops, decodes, dir, enum_result,
          terminal>>

appvars == <<files, selected_file, selected_field, input_buffer, current_field,
             current_file, mode, message, album_art_cache>>

-----------------------------------------------------------------------------
(* Bounds of the model *)

\* longest input buffer a character key may produce
MaxLen == 2

\* number of modify_field calls explored in one session
MaxWrites == 1

\* image decodes per file when the artwork cache is exercised on its own
MaxDecodes == 2

-----------------------------------------------------------------------------
(* Options and strings *)

None == << >>

Some(v) == << v >>

EmptyStr == << >>

\* the characters a KeyCode::Char event may carry in the model
Chars == {"b", "q"}

Digits == <<"0", "1", "2", "3", "4", "5", "6", "7", "8", "9">>

IsDigit(c) == \E i \in 1..Len(Digits) : Digits[i] = c

DigitVal(c) == (CHOOSE i \in 1..Len(Digits) : Digits[i] = c) - 1

RECURSIVE DigitsVal(_)
DigitsVal(s) ==
    IF Len(s) = 0 THEN 0
    ELSE 10 * DigitsVal(SubSeq(s, 1, Len(s) - 1)) + DigitVal(s[Len(s)])

AllDigits(s) == Len(s) > 0 /\ \A i \in 1..Len(s) : IsDigit(s[i])

\* integer to_string
RECURSIVE NatToString(_)
NatToString(n) ==
    IF n < 10 THEN << Digits[n + 1] >>
    ELSE Append(NatToString(n \div 10), Digits[(n % 10) + 1])

\* str::parse::<u32>() of modify_field's Track branch: Some(n) or None
ParseTrack(value) ==
    IF AllDigits(value) THEN Some(DigitsVal(value)) ELSE None

\* str::parse::<Timestamp>() of modify_field's Date branch: a year (the
\* model's values carry no month or day part), Some(year) or None
ParseTimestamp(value) ==
    IF AllDigits(value) THEN Some(DigitsVal(value)) ELSE None

RECURSIVE PadZero(_)
PadZero(s) == IF Len(s) >= 4 THEN s ELSE PadZero(<<"0">> \o s)

\* Timestamp::to_string: the year zero-padded to four digits
TimestampToString(y) == PadZero(NatToString(y))

-----------------------------------------------------------------------------
(* The tag codec: what a file's tag container holds *)

fields == <<"Song Name", "Artist", "Album", "Date", "Track">>

EmptyTag == [title |-> None, artist |-> None, album |-> None,
             tyer |-> None, tdrc |-> None, trck |-> None, pic |-> "none"]

Unreadable == [readable |-> FALSE, tag |-> EmptyTag]

\* Tag::read_from_path: Some(tag) or None (Err)
ReadFromPath(d, path) ==
    IF path \in DOMAIN d /\ d[path].readable THEN Some(d[path].tag) ELSE None

\* the Unknown sentinel of tags_for_file
Unknown == <<"Unknown">>

UnwrapOr(opt, default) == IF opt = None THEN default ELSE opt[1]

-----------------------------------------------------------------------------
(* src/functions.rs *)

\* ApplyField with the Artist arm writing the album frame
ApplyField_ArtistIntoAlbum(tag, field, value) ==
    CASE field = "Song Name" -> [tag EXCEPT !.title = Some(value)]
      [] field = "Artist"    -> [tag EXCEPT !.album = Some(value)]
      [] field = "Album"     -> [tag EXCEPT !.album = Some(value)]
      [] field = "Date"      ->
            IF ParseTimestamp(value) # None
            THEN [tag EXCEPT !.tdrc = ParseTimestamp(value)]
            ELSE tag
      [] field = "Track"     ->
            IF ParseTrack(value) # None
            THEN [tag EXCEPT !.trck = ParseTrack(value)]
            ELSE tag
      [] OTHER -> tag

\* the field update of modify_field (the match on the field name)
ApplyField(tag, field, value) ==
    CASE field = "Song Name" -> [tag EXCEPT !.title = Some(value)]
      [] field = "Artist"    -> [tag EXCEPT !.artist = Some(value)]
      [] field = "Album"     -> [tag EXCEPT !.album = Some(value)]
      [] field = "Date"      ->
            IF ParseTimestamp(value) # None
            THEN [tag EXCEPT !.tdrc = ParseTimestamp(value)]
            ELSE tag
      [] field = "Track"     ->
            IF ParseTrack(value) # None
            THEN [tag EXCEPT !.trck = ParseTrack(value)]
            ELSE tag
      [] OTHER -> tag

\* modify_field with the parse error of Date and Track propagated
modify_field_ParseErrorReturned(d, file_path, field, value, io_ok) ==
    LET tag == UnwrapOr(ReadFromPath(d, file_path), EmptyTag)
        new == ApplyField(tag, field, value)
        bad == \/ field = "Date" /\ ParseTimestamp(value) = None
               \/ field = "Track" /\ ParseTrack(value) = None
    IN  IF io_ok /\ file_path \in DOMAIN d /\ ~bad
        THEN [disk |-> [d EXCEPT ![file_path] = [readable |-> TRUE, tag |-> new]],
              ok |-> TRUE]
        ELSE [disk |-> d, ok |-> FALSE]

\* modify_field: read the tag or start from an empty one, update one field,
\* write the tag back.  io_ok says whether write_to_path succeeds; a failed
\* write leaves the file as it was.
modify_field(d, file_path, field, value, io_ok) ==
    LET tag == UnwrapOr(ReadFromPath(d, file_path), EmptyTag)
        new == ApplyField(tag, field, value)
    IN  IF io_ok /\ file_path \in DOMAIN d
        THEN [disk |-> [d EXCEPT ![file_path] = [readable |-> TRUE, tag |-> new]],
              ok |-> TRUE]
        ELSE [disk |-> d, ok |-> FALSE]

\* the byte of a character of a file name, the key of the order of String
Ascii(c) ==
    CASE c = "." -> 46  [] c = "3" -> 51  [] c = "B" -> 66  [] c = "M" -> 77
      [] c = "P" -> 80  [] c = "a" -> 97  [] c = "b" -> 98  [] c = "m" -> 109
      [] c = "p" -> 112

\* Ord for String: byte after byte, a proper prefix first
RECURSIVE StrLess(_, _)
StrLess(s, t) ==
    IF s = << >> THEN t # << >>
    ELSE IF t = << >> THEN FALSE
    ELSE IF Head(s) = Head(t) THEN StrLess(Tail(s), Tail(t))
    ELSE Ascii(Head(s)) < Ascii(Head(t))

RECURSIVE Insert(_, _)
Insert(sorted, x) ==
    IF sorted = << >> THEN << x >>
    ELSE IF StrLess(x, Head(sorted)) THEN << x >> \o sorted
    ELSE << Head(sorted) >> \o Insert(Tail(sorted), x)

\* Vec<String>::sort
RECURSIVE sort(_)
sort(v) ==
    IF v = << >> THEN << >>
    ELSE Insert(sort(SubSeq(v, 1, Len(v) - 1)), v[Len(v)])

\* Path::extension: what follows the last dot of the file name; None when
\* there is no dot or the only dot is the first character
Extension(name) ==
    LET dots == { i \in 1..Len(name) : name[i] = "." }
        last == IF dots = {} THEN 0
                ELSE CHOOSE i \in dots : \A j \in dots : j <= i
    IN  IF last <= 1 THEN None ELSE Some(SubSeq(name, last + 1, Len(name)))

Ok(v) == [ok |-> TRUE, val |-> v]

Err == [ok |-> FALSE, val |-> << >>]

\* the loop of get_mp3_files over the entries in the order read_dir yields
\* them: an entry that read_dir reports as an error ends the function with
\* that error, a regular file with the extension mp3 is pushed
RECURSIVE ReadEntries(_, _, _)
ReadEntries(d, order, mp3_files) ==
    IF order = << >> THEN Ok(mp3_files)
    ELSE LET name == Head(order)
             kind == d.entries[name]
         IN  IF kind = "err" THEN Err
             ELSE ReadEntries(d, Tail(order),
                     IF kind = "file" /\ Extension(name) = Some(<<"m", "p", "3">>)
                     THEN Append(mp3_files, name)
                     ELSE mp3_files)

\* get_mp3_files that returns the names in the order read_dir yields them
get_mp3_files_Unsorted(d, order) ==
    IF d.kind = "dir"
    THEN IF d.readable THEN ReadEntries(d, order, << >>) ELSE Err
    ELSE Ok(<< >>)

\* get_mp3_files that calls read_dir whatever the path is
get_mp3_files_NoDirGuard(d, order) ==
    LET listed == IF d.kind = "dir" /\ d.readable
                  THEN ReadEntries(d, order, << >>)
                  ELSE Err
    IN  IF listed.ok THEN Ok(sort(listed.val)) ELSE listed

\* get_mp3_files on the path d, of which read_dir yields the entries in the
\* given order; Path::is_dir is true of a directory that cannot be opened,
\* and read_dir then fails
get_mp3_files(d, order) ==
    LET listed == IF d.kind = "dir"
                  THEN IF d.readable THEN ReadEntries(d, order, << >>) ELSE Err
                  ELSE Ok(<< >>)
    IN  IF listed.ok THEN Ok(sort(listed.val)) ELSE listed

-----------------------------------------------------------------------------
(* src/app.rs: reading *)

OptToString(opt, conv(_), default) ==
    IF opt = None THEN default ELSE conv(opt[1])

\* App::tags_for_file: Some(TagInfo) or None
tags_for_file(d, filename) ==
    LET r == ReadFromPath(d, filename) IN
    IF r = None THEN None
    ELSE LET tag == r[1] IN
         Some([title  |-> UnwrapOr(tag.title, Unknown),
               artist |-> UnwrapOr(tag.artist, Unknown),
               album  |-> UnwrapOr(tag.album, Unknown),
               year   |-> OptToString(tag.tdrc, TimestampToString, Unknown),
               track  |-> OptToString(tag.trck, NatToString, Unknown)])

\* the value start_editing puts in the input buffer
EditValue(d, file, field) ==
    LET r == ReadFromPath(d, file) IN
    IF r = None THEN EmptyStr
    ELSE LET tag == r[1] IN
         CASE field = "Song Name" -> UnwrapOr(tag.title, EmptyStr)
           [] field = "Artist"    -> UnwrapOr(tag.artist, EmptyStr)
           [] field = "Album"     -> UnwrapOr(tag.album, EmptyStr)
           [] field = "Date"      -> OptToString(tag.tyer, NatToString, EmptyStr)
           [] field = "Track"     -> OptToString(tag.trck, NatToString, EmptyStr)
           [] OTHER -> EmptyStr

-----------------------------------------------------------------------------
(* src/app.rs: the App object *)

\* the status messages the App formats
Msg(kind, file, field, value) ==
    [kind |-> kind, file |-> file, field |-> field, value |-> value]

MsgSelect == Msg("Select a file to edit", "", "", EmptyStr)

MsgEditing(file) == Msg("Editing: ", file, "", EmptyStr)

MsgUpdated(field, value) == Msg("Updated", "", field, value)

MsgError == Msg("Error", "", "", EmptyStr)

MsgCancelled == Msg("Edit cancelled", "", "", EmptyStr)

\* the directories App::new may find: get_mp3_files returns the names sorted
Dirs == { << >>, <<"a.mp3">>, <<"a.mp3", "b.mp3">> }

Range(s) == { s[i] : i \in 1..Len(s) }

\* a directory of which get_mp3_files returns the list fs
DirOf(fs) ==
    [kind |-> "dir", readable |-> TRUE, entries |-> [f \in Range(fs) |-> "file"]]

\* the tag containers the files start with
InitTagA == [title |-> Some(<<"q">>), artist |-> None, album |-> Some(EmptyStr),
             tyer |-> Some(1), tdrc |-> None, trck |-> Some(1), pic |-> "good"]

InitDisk(fs) ==
    [f \in Range(fs) |->
        IF f = "a.mp3" THEN [readable |-> TRUE, tag |-> InitTagA] ELSE Unreadable]

\* App::new
AppNew(fs) ==
    /\ files = fs
    /\ selected_file = 0
    /\ selected_field = 0
    /\ input_buffer = EmptyStr
    /\ current_field = None
    /\ current_file = IF fs = << >> THEN "" ELSE fs[1]
    /\ mode = "FileSelection"
    /\ message = MsgSelect
    /\ album_art_cache = [p \in {} |-> 0]

\* App::extract_album_art_bytes: Some(picture) or None
extract_album_art_bytes(d, filename) ==
    LET r == ReadFromPath(d, filename) IN
    IF r = None \/ r[1].pic = "none" THEN None ELSE Some(r[1].pic)

\* load_album_art that never looks into the cache
load_album_art_NoCacheCheck(cache, d, filename) ==
    LET art_data == extract_album_art_bytes(d, filename) IN
    IF art_data = None
    THEN [cache |-> cache, ret |-> None, extracted |-> TRUE, decoded |-> FALSE]
    ELSE IF art_data[1] = "good"
         THEN LET protocol_arc == Cardinality(DOMAIN cache) + 1 IN
              [cache |-> [p \in DOMAIN cache \cup {filename} |->
                            IF p = filename THEN protocol_arc ELSE cache[p]],
               ret |-> Some(protocol_arc),
               extracted |-> TRUE, decoded |-> TRUE]
         ELSE [cache |-> cache, ret |-> None,
               extracted |-> TRUE, decoded |-> TRUE]

\* load_album_art that also remembers the pictures that do not decode
load_album_art_CachesFailures(cache, d, filename) ==
    IF filename \in DOMAIN cache
    THEN [cache |-> cache, ret |-> Some(cache[filename]),
          extracted |-> FALSE, decoded |-> FALSE]
    ELSE LET art_data == extract_album_art_bytes(d, filename) IN
         IF art_data = None
         THEN [cache |-> cache, ret |-> None,
               extracted |-> TRUE, decoded |-> FALSE]
         ELSE LET protocol_arc == Cardinality(DOMAIN cache) + 1 IN
              [cache |-> [p \in DOMAIN cache \cup {filename} |->
                            IF p = filename THEN protocol_arc ELSE cache[p]],
               ret |-> IF art_data[1] = "good" THEN Some(protocol_arc) ELSE None,
               extracted |-> TRUE, decoded |-> TRUE]

\* App::load_album_art: the cache after the call, the handle returned (the
\* handles are numbered in the order Arc::new creates them), and whether the
\* picture was looked for and whether image::load_from_memory ran
load_album_art(cache, d, filename) ==
    IF filename \in DOMAIN cache
    THEN [cache |-> cache, ret |-> Some(cache[filename]),
          extracted |-> FALSE, decoded |-> FALSE]
    ELSE LET art_data == extract_album_art_bytes(d, filename) IN
         IF art_data = None
         THEN [cache |-> cache, ret |-> None,
               extracted |-> TRUE, decoded |-> FALSE]
         ELSE IF art_data[1] = "good"
              THEN LET protocol_arc == Cardinality(DOMAIN cache) + 1 IN
                   [cache |-> [p \in DOMAIN cache \cup {filename} |->
                                 IF p = filename THEN protocol_arc ELSE cache[p]],
                    ret |-> Some(protocol_arc),
                    extracted |-> TRUE, decoded |-> TRUE]
              ELSE [cache |-> cache, ret |-> None,
                    extracted |-> TRUE, decoded |-> TRUE]

\* has_album_art that asks the file only
has_album_art_FreshOnly(cache, d, filename) ==
    LET r == ReadFromPath(d, filename) IN r # None /\ r[1].pic # "none"

\* App::has_album_art
has_album_art(cache, d, filename) ==
    \/ filename \in DOMAIN cache
    \/ LET r == ReadFromPath(d, filename) IN r # None /\ r[1].pic # "none"

\* next_item moving the file index without renaming the current file
next_item_StaleCurrentFile ==
    /\ CASE mode = "FileSelection" ->
              /\ IF files # << >>
                 THEN selected_file' = (selected_file + 1) % Len(files)
                 ELSE UNCHANGED selected_file
              /\ UNCHANGED <<current_file, selected_field>>
         [] mode = "FieldSelection" ->
              /\ selected_field' = (selected_field + 1) % Len(fields)
              /\ UNCHANGED <<selected_file, current_file>>
         [] OTHER -> UNCHANGED <<selected_file, current_file, selected_field>>
    /\ UNCHANGED <<files, input_buffer, current_field, mode, message,
                   album_art_cache>>

\* next_item without the match on the mode: the file moves in every mode
next_item_AnyMode ==
    /\ IF files # << >>
       THEN /\ selected_file' = (selected_file + 1) % Len(files)
            /\ current_file' = files[selected_file' + 1]
       ELSE UNCHANGED <<selected_file, current_file>>
    /\ selected_field' = IF mode = "FieldSelection"
                         THEN (selected_field + 1) % Len(fields)
                         ELSE selected_field
    /\ UNCHANGED <<files, input_buffer, current_field, mode, message,
                   album_art_cache>>

\* App::next_item
next_item ==
    /\ CASE mode = "FileSelection" ->
              /\ IF files # << >>
                 THEN /\ selected_file' = (selected_file + 1) % Len(files)
                      /\ current_file' = files[selected_file' + 1]
                 ELSE UNCHANGED <<selected_file, current_file>>
              /\ UNCHANGED selected_field
         [] mode = "FieldSelection" ->
              /\ selected_field' = (selected_field + 1) % Len(fields)
              /\ UNCHANGED <<selected_file, current_file>>
         [] OTHER -> UNCHANGED <<selected_file, current_file, selected_field>>
    /\ UNCHANGED <<files, input_buffer, current_field, mode, message,
                   album_art_cache>>

\* previous_item wrapping the field index to len instead of len - 1
previous_item_WrapToLen ==
    /\ CASE mode = "FileSelection" ->
              /\ IF files # << >>
                 THEN /\ selected_file' = IF selected_file > 0
                                          THEN selected_file - 1
                                          ELSE Len(files) - 1
                      /\ current_file' = files[selected_file' + 1]
                 ELSE UNCHANGED <<selected_file, current_file>>
              /\ UNCHANGED selected_field
         [] mode = "FieldSelection" ->
              /\ selected_field' = IF selected_field > 0
                                    THEN selected_field - 1
                                    ELSE Len(fields)
              /\ UNCHANGED <<selected_file, current_file>>
         [] OTHER -> UNCHANGED <<selected_file, current_file, selected_field>>
    /\ UNCHANGED <<files, input_buffer, current_field, mode, message,
                   album_art_cache>>

\* previous_item stopping at index 0 instead of wrapping
previous_item_Clamped ==
    /\ CASE mode = "FileSelection" ->
              /\ IF files # << >>
                 THEN /\ selected_file' = IF selected_file > 0
                                          THEN selected_file - 1
                                          ELSE 0
                      /\ current_file' = files[selected_file' + 1]
                 ELSE UNCHANGED <<selected_file, current_file>>
              /\ UNCHANGED selected_field
         [] mode = "FieldSelection" ->
              /\ selected_field' = IF selected_field > 0
                                    THEN selected_field - 1
                                    ELSE 0
              /\ UNCHANGED <<selected_file, current_file>>
         [] OTHER -> UNCHANGED <<selected_file, current_file, selected_field>>
    /\ UNCHANGED <<files, input_buffer, current_field, mode, message,
                   album_art_cache>>

\* App::previous_item
previous_item ==
    /\ CASE mode = "FileSelection" ->
              /\ IF files # << >>
                 THEN /\ selected_file' = IF selected_file > 0
                                          THEN selected_file - 1
                                          ELSE Len(files) - 1
                      /\ current_file' = files[selected_file' + 1]
                 ELSE UNCHANGED <<selected_file, current_file>>
              /\ UNCHANGED selected_field
         [] mode = "FieldSelection" ->
              /\ selected_field' = IF selected_field > 0
                                    THEN selected_field - 1
                                    ELSE Len(fields) - 1
              /\ UNCHANGED <<selected_file, current_file>>
         [] OTHER -> UNCHANGED <<selected_file, current_file, selected_field>>
    /\ UNCHANGED <<files, input_buffer, current_field, mode, message,
                   album_art_cache>>

\* start_field_selection without the guard on the file list
start_field_selection_Unguarded ==
    /\ mode' = "FieldSelection"
    /\ message' = MsgEditing(current_file)
    /\ UNCHANGED <<files, selected_file, selected_field, input_buffer,
                   current_field, current_file, album_art_cache>>

\* App::start_field_selection
start_field_selection ==
    /\ IF files # << >>
       THEN /\ mode' = "FieldSelection"
            /\ message' = MsgEditing(current_file)
       ELSE UNCHANGED <<mode, message>>
    /\ UNCHANGED <<files, selected_file, selected_field, input_buffer,
                   current_field, current_file, album_art_cache>>

\* App::start_editing
start_editing ==
    /\ mode' = "Editing"
    /\ current_field' = Some(fields[selected_field + 1])
    /\ input_buffer' = EditValue(disk, current_file, fields[selected_field + 1])
    /\ UNCHANGED <<files, selected_file, selected_field, current_file, message,
                   album_art_cache>>

\* finish_editing staying in Editing when the write fails
finish_editing_StaysOnError(io_ok) ==
    /\ current_field # None
    /\ LET r == modify_field(disk, current_file, current_field[1],
                             input_buffer, io_ok)
       IN  /\ disk' = r.disk
           /\ message' = IF r.ok
                         THEN MsgUpdated(current_field[1], input_buffer)
                         ELSE MsgError
           /\ nwrites' = nwrites + 1
           /\ calls' = << [path |-> current_file, field |-> current_field[1],
                           value |-> input_buffer, io |-> io_ok,
                           ok |-> r.ok] >>
           /\ mode' = IF r.ok THEN "FieldSelection" ELSE "Editing"
           /\ current_field' = IF r.ok THEN None ELSE current_field
    /\ UNCHANGED <<files, selected_file, selected_field, input_buffer,
                   current_file, album_art_cache>>

\* finish_editing reporting success whatever modify_field returned
finish_editing_NoMessage(io_ok) ==
    /\ IF current_field # None
       THEN LET r == modify_field(disk, current_file, current_field[1],
                                  input_buffer, io_ok)
            IN  /\ disk' = r.disk
                /\ message' = MsgUpdated(current_field[1], input_buffer)
                /\ nwrites' = nwrites + 1
                /\ calls' = << [path |-> current_file, field |-> current_field[1],
                                 value |-> input_buffer, io |-> io_ok,
                                 ok |-> r.ok] >>
       ELSE UNCHANGED <<disk, message, nwrites>> /\ calls' = << >>
    /\ mode' = "FieldSelection"
    /\ current_field' = None
    /\ UNCHANGED <<files, selected_file, selected_field, input_buffer,
                   current_file, album_art_cache>>

\* App::finish_editing; io_ok says whether the write of modify_field succeeds
finish_editing(io_ok) ==
    /\ IF current_field # None
       THEN LET r == modify_field(disk, current_file, current_field[1],
                                  input_buffer, io_ok)
            IN  /\ disk' = r.disk
                /\ message' = IF r.ok
                              THEN MsgUpdated(current_field[1], input_buffer)
                              ELSE MsgError
                /\ nwrites' = nwrites + 1
                /\ calls' = << [path |-> current_file, field |-> current_field[1],
                                 value |-> input_buffer, io |-> io_ok,
                                 ok |-> r.ok] >>
       ELSE UNCHANGED <<disk, message, nwrites>> /\ calls' = << >>
    /\ mode' = "FieldSelection"
    /\ current_field' = None
    /\ UNCHANGED <<files, selected_file, selected_field, input_buffer,
                   current_file, album_art_cache>>

\* cancel_editing keeping the field under edit
cancel_editing_KeepsSession ==
    /\ mode' = "FieldSelection"
    /\ message' = MsgCancelled
    /\ UNCHANGED <<files, selected_file, selected_field, input_buffer,
                   current_field, current_file, album_art_cache>>

\* App::cancel_editing
cancel_editing ==
    /\ mode' = "FieldSelection"
    /\ current_field' = None
    /\ message' = MsgCancelled
    /\ UNCHANGED <<files, selected_file, selected_field, input_buffer,
                   current_file, album_art_cache>>

\* App::back_to_files
back_to_files ==
    /\ mode' = "FileSelection"
    /\ message' = MsgSelect
    /\ UNCHANGED <<files, selected_file, selected_field, input_buffer,
                   current_field, current_file, album_art_cache>>

\* push_to_buffer putting the character in front
push_to_buffer_Front(c) ==
    /\ input_buffer' = <<c>> \o input_buffer
    /\ UNCHANGED <<files, selected_file, selected_field, current_field,
                   current_file, mode, message, album_art_cache>>

\* App::push_to_buffer
push_to_buffer(c) ==
    /\ input_buffer' = Append(input_buffer, c)
    /\ UNCHANGED <<files, selected_file, selected_field, current_field,
                   current_file, mode, message, album_art_cache>>

\* App::pop_from_buffer
pop_from_buffer ==
    /\ input_buffer' = IF input_buffer = EmptyStr THEN EmptyStr
                       ELSE SubSeq(input_buffer, 1, Len(input_buffer) - 1)
    /\ UNCHANGED <<files, selected_file, selected_field, current_field,
                   current_file, mode, message, album_art_cache>>

-----------------------------------------------------------------------------
(* src/ui.rs *)

\* the record of one has_album_art call and of one load_album_art call
HasOp(f, b) ==
    [op |-> "has", path |-> f, has |-> b, ret |-> None,
     extracted |-> FALSE, decoded |-> FALSE]

GetOp(f, r) ==
    [op |-> "get", path |-> f, has |-> r.ret # None, ret |-> r.ret,
     extracted |-> r.extracted, decoded |-> r.decoded]

\* the record of one operation on the Mutex of a handle: "lock" for
\* protocol_arc.lock(), "render" for render_stateful_widget under the guard,
\* "unlock" for the drop of the guard at the end of its block
HandleOp(kind, f, h) ==
    [op |-> kind, path |-> f, has |-> TRUE, ret |-> h,
     extracted |-> FALSE, decoded |-> FALSE]

\* create_album_art_widget whose guard outlives the render
RenderOps_KeepsLock(f, r) ==
    IF r.ret # None
    THEN << HandleOp("lock", f, r.ret), HandleOp("render", f, r.ret) >>
    ELSE << >>

\* create_album_art_widget after load_album_art returned: the image is
\* rendered under the lock of the handle, the placeholder without any lock
RenderOps(f, r) ==
    IF r.ret # None
    THEN << HandleOp("lock", f, r.ret), HandleOp("render", f, r.ret),
            HandleOp("unlock", f, r.ret) >>
    ELSE << >>

\* ui: create_tags_preview_widget asks has_album_art when the selected file
\* has readable tags; the one state change of a render is the artwork lookup
\* of create_album_art_widget, skipped when the area is too small or no file
\* is selected; the handle found is then rendered under its lock
ui(small) ==
    LET sel == selected_file < Len(files)
        f   == files[selected_file + 1]
        art == ~small /\ sel
        r   == load_album_art(album_art_cache, disk, f)
    IN  /\ album_art_cache' = IF art THEN r.cache ELSE album_art_cache
        /\ art_ops' =
              (IF sel /\ tags_for_file(disk, f) # None
               THEN << HasOp(f, has_album_art(album_art_cache, disk, f)) >>
               ELSE << >>)
              \o (IF art THEN << GetOp(f, r) >> \o RenderOps(f, r) ELSE << >>)
        /\ decodes' = IF art /\ r.decoded
                      THEN [decodes EXCEPT ![f] = @ + 1]
                      ELSE decodes
        /\ UNCHANGED <<files, selected_file, selected_field, input_buffer,
                       current_field, current_file, mode, message>>

-----------------------------------------------------------------------------
(* src/main.rs: run_app *)

NoSession == [file |-> "", field |-> "", disk |-> << >>]

\* the terminal before main: cooked mode, main screen
TermCooked == [raw |-> FALSE, alt |-> FALSE, setup |-> "none", restore |-> "none"]

\* the terminal after setup_terminal returned Ok: raw mode, alternate screen
TermReady == [raw |-> TRUE, alt |-> TRUE, setup |-> "ok", restore |-> "none"]

\* a step that is not of setup_terminal or restore_terminal
NoTerm == UNCHANGED terminal

\* a step that does not call get_mp3_files, nor sees the directory change
NoEnum == UNCHANGED <<dir, enum_result>>

\* a step that makes no artwork cache call
NoArt == art_ops' = << >> /\ decodes' = decodes

\* a step that calls no modify_field and starts no edit session: the session
\* observed is the one of the Editing mode, and ends with it
Quiet ==
    /\ nwrites' = nwrites
    /\ calls' = << >>
    /\ session' = IF mode' = "Editing" THEN session ELSE NoSession
    /\ NoEnum /\ NoTerm

\* the key codes event::read may deliver; "Tab" stands for every other key
Keys == {"Down", "Up", "Enter", "Esc", "Backspace", "Tab"} \cup Chars

\* the match of run_app in Mode::FileSelection
KeyFileSelection(key) ==
    CASE key = "q"     -> pc' = "quit" /\ UNCHANGED <<appvars, disk>> /\ Quiet /\ NoArt
      [] key = "Down"  -> next_item /\ pc' = "draw" /\ UNCHANGED disk /\ Quiet /\ NoArt
      [] key = "Up"    -> previous_item /\ pc' = "draw" /\ UNCHANGED disk /\ Quiet /\ NoArt
      [] key = "Enter" -> start_field_selection /\ pc' = "draw"
                          /\ UNCHANGED disk /\ Quiet /\ NoArt
      [] OTHER         -> pc' = "draw" /\ UNCHANGED <<appvars, disk>> /\ Quiet /\ NoArt

\* the match of run_app in Mode::FieldSelection
KeyFieldSelection(key) ==
    CASE key = "q"     -> pc' = "quit" /\ UNCHANGED <<appvars, disk>> /\ Quiet /\ NoArt
      [] key = "b"     -> back_to_files /\ pc' = "draw" /\ UNCHANGED disk /\ Quiet /\ NoArt
      [] key = "Down"  -> next_item /\ pc' = "draw" /\ UNCHANGED disk /\ Quiet /\ NoArt
      [] key = "Up"    -> previous_item /\ pc' = "draw" /\ UNCHANGED disk /\ Quiet /\ NoArt
      [] key = "Enter" -> /\ start_editing
                          /\ session' = [file  |-> files[selected_file + 1],
                                         field |-> fields[selected_field + 1],
                                         disk  |-> disk]
                          /\ calls' = << >>
                          /\ pc' = "draw"
                          /\ UNCHANGED <<disk, nwrites>> /\ NoArt /\ NoEnum /\ NoTerm
      [] OTHER         -> pc' = "draw" /\ UNCHANGED <<appvars, disk>> /\ Quiet /\ NoArt

\* the match of run_app in Mode::Editing; finish_editing never returns Err,
\* so the set_message of line 67 is never reached
KeyEditing(key) ==
    CASE key = "Enter" -> /\ nwrites < MaxWrites
                          /\ \E io_ok \in BOOLEAN : finish_editing(io_ok)
                          /\ pc' = "draw"
                          /\ session' = NoSession /\ NoArt /\ NoEnum /\ NoTerm
      [] key = "Esc"   -> cancel_editing /\ pc' = "draw" /\ UNCHANGED disk /\ Quiet /\ NoArt
      [] key = "b"     -> back_to_files /\ pc' = "draw" /\ UNCHANGED disk /\ Quiet /\ NoArt
      [] key \in Chars \ {"b"} ->
                          /\ Len(input_buffer) < MaxLen
                          /\ push_to_buffer(key)
                          /\ pc' = "draw"
                          /\ UNCHANGED disk /\ Quiet /\ NoArt
      [] key = "Backspace" ->
                          pop_from_buffer /\ pc' = "draw" /\ UNCHANGED disk /\ Quiet /\ NoArt
      [] OTHER         -> pc' = "draw" /\ UNCHANGED <<appvars, disk>> /\ Quiet /\ NoArt

\* one key event handled by run_app
HandleKey(key) ==
    CASE mode = "FileSelection"  -> KeyFileSelection(key)
      [] mode = "FieldSelection" -> KeyFieldSelection(key)
      [] mode = "Editing"        -> KeyEditing(key)

\* a loop that handles a key where it should draw
Draw_HandlesKey ==
    /\ pc = "draw"
    /\ \E key \in Keys : HandleKey(key)

\* terminal.draw(|f| ui(f, &mut app)) succeeds
Draw ==
    /\ pc = "draw"
    /\ \E small \in BOOLEAN : ui(small)
    /\ pc' = "read"
    /\ UNCHANGED disk /\ Quiet

\* terminal.draw fails and run_app returns the error
DrawError ==
    /\ pc = "draw"
    /\ \E small \in BOOLEAN : ui(small)
    /\ pc' = "error"
    /\ UNCHANGED disk /\ Quiet

\* event::read delivers a key event
ReadKey ==
    /\ pc = "read"
    /\ \E key \in Keys : HandleKey(key)

\* event::read delivers an event that is no key event
ReadOther ==
    /\ pc = "read"
    /\ pc' = "draw"
    /\ UNCHANGED <<appvars, disk>> /\ Quiet /\ NoArt

\* event::read fails and run_app returns the error
ReadError ==
    /\ pc = "read"
    /\ pc' = "error"
    /\ UNCHANGED <<appvars, disk>> /\ Quiet /\ NoArt

Init ==
    \E fs \in Dirs :
        /\ AppNew(fs)
        /\ disk = InitDisk(fs)
        /\ pc = "draw"
        /\ nwrites = 0
        /\ calls = << >>
        /\ session = NoSession
        /\ art_ops = << >>
        /\ decodes = [f \in Range(files) |-> 0]
        /\ dir = DirOf(files)
        /\ enum_result = Some(Ok(files))
        /\ terminal = TermReady

Next == Draw \/ DrawError \/ ReadKey \/ ReadOther \/ ReadError

Spec == Init /\ [][Next]_vars

-----------------------------------------------------------------------------
(* The Tag Accessor on its own: Write calls with arbitrary fields and values *)

\* the characters of the values written
WChars == {"q", "0", "1", "-"}

WriteValues == UNION { [1..n -> WChars] : n \in 0..MaxLen }

\* the five catalog names and a name outside the catalog
WriteFields == Range(fields) \cup {"Genre"}

FullTag == [title |-> Some(<<"q">>), artist |-> Some(<<"1">>), album |-> Some(EmptyStr),
            tyer |-> None, tdrc |-> Some(10), trck |-> Some(0), pic |-> "bad"]

SampleFiles == { Unreadable,
                 [readable |-> TRUE, tag |-> EmptyTag],
                 [readable |-> TRUE, tag |-> InitTagA],
                 [readable |-> TRUE, tag |-> FullTag] }

InitWrite ==
    \E t \in SampleFiles :
        /\ AppNew(<<"a.mp3">>)
        /\ disk = [f \in {"a.mp3"} |-> t]
        /\ pc = "write"
        /\ nwrites = 0
        /\ calls = << >>
        /\ session = NoSession
        /\ art_ops = << >>
        /\ decodes = [f \in Range(files) |-> 0]
        /\ dir = DirOf(files)
        /\ enum_result = Some(Ok(files))
        /\ terminal = TermCooked

\* one call of modify_field on the file
WriteCall ==
    /\ pc = "write"
    /\ nwrites < MaxWrites
    /\ \E field \in WriteFields, value \in WriteValues, io_ok \in BOOLEAN :
          LET r == modify_field(disk, "a.mp3", field, value, io_ok) IN
          /\ disk' = r.disk
          /\ calls' = << [path |-> "a.mp3", field |-> field, value |-> value,
                          io |-> io_ok, ok |-> r.ok] >>
    /\ nwrites' = nwrites + 1
    /\ UNCHANGED <<appvars, pc, session>> /\ NoArt /\ NoEnum /\ NoTerm

NextWrite == WriteCall

SpecWrite == InitWrite /\ [][NextWrite]_vars

-----------------------------------------------------------------------------
(* The artwork cache on its own: load_album_art and has_album_art called on
   files that other programs may rewrite between two calls *)

ArtFiles == <<"a.mp3", "b.mp3">>

\* a file without readable tags, without a picture, with a picture that does
\* not decode, and with one that does
ArtTags == { Unreadable }
           \cup { [readable |-> TRUE, tag |-> [EmptyTag EXCEPT !.pic = p]] :
                     p \in {"none", "bad", "good"} }

InitArt ==
    \E d \in [Range(ArtFiles) -> ArtTags] :
        /\ AppNew(ArtFiles)
        /\ disk = d
        /\ pc = "art"
        /\ nwrites = 0
        /\ calls = << >>
        /\ session = NoSession
        /\ art_ops = << >>
        /\ decodes = [f \in Range(files) |-> 0]
        /\ dir = DirOf(files)
        /\ enum_result = Some(Ok(files))
        /\ terminal = TermCooked

\* one call of load_album_art
GetCall ==
    /\ pc = "art"
    /\ \E f \in Range(files) :
          LET r == load_album_art(album_art_cache, disk, f) IN
          /\ r.decoded => decodes[f] < MaxDecodes
          /\ album_art_cache' = r.cache
          /\ art_ops' = << GetOp(f, r) >>
          /\ decodes' = IF r.decoded THEN [decodes EXCEPT ![f] = @ + 1]
                        ELSE decodes
    /\ UNCHANGED <<files, selected_file, selected_field, input_buffer,
                   current_field, current_file, mode, message,
                   disk, pc, nwrites, calls, session>>
    /\ NoEnum /\ NoTerm

\* one call of has_album_art
HasCall ==
    /\ pc = "art"
    /\ \E f \in Range(files) :
          art_ops' = << HasOp(f, has_album_art(album_art_cache, disk, f)) >>
    /\ UNCHANGED <<appvars, disk, pc, nwrites, calls, session, decodes>>
    /\ NoEnum /\ NoTerm

\* between two calls the file that Tag::read_from_path reads was rewritten
FileChanged ==
    /\ pc = "art"
    /\ \E f \in Range(files), t \in ArtTags :
          /\ t # disk[f]
          /\ disk' = [disk EXCEPT ![f] = t]
    /\ art_ops' = << >>
    /\ UNCHANGED <<appvars, pc, nwrites, calls, session, decodes>>
    /\ NoEnum /\ NoTerm

NextArt == GetCall \/ HasCall \/ FileChanged

SpecArt == InitArt /\ [][NextArt]_vars

-----------------------------------------------------------------------------
(* get_mp3_files on its own: called on a path that is a directory, a file or
   missing, whose entries read_dir yields in any order *)

MaxEntries == 3

\* file names: a.mp3, B.mp3, ab.mp3, .mp3, a.MP3, a.mp
EnumNames == { <<"a", ".", "m", "p", "3">>,
               <<"B", ".", "m", "p", "3">>,
               <<"a", "b", ".", "m", "p", "3">>,
               <<".", "m", "p", "3">>,
               <<"a", ".", "M", "P", "3">>,
               <<"a", ".", "m", "p">> }

\* a regular file, a directory, a symlink to nothing, and an entry that
\* read_dir reports as an error
EntryKinds == {"file", "dir", "dangling", "err"}

Missing == [kind |-> "missing", readable |-> FALSE, entries |-> [n \in {} |-> "file"]]

NotADir == [kind |-> "file", readable |-> TRUE, entries |-> [n \in {} |-> "file"]]

EnumDirs ==
    { Missing, NotADir }
    \cup { [kind |-> "dir", readable |-> r, entries |-> e] :
             r \in BOOLEAN,
             e \in UNION { [S -> EntryKinds] :
                             S \in { T \in SUBSET EnumNames :
                                       Cardinality(T) <= MaxEntries } } }

\* the orders in which read_dir may yield the entries
Orders(S) == { o \in [1..Cardinality(S) -> S] : Range(o) = S }

InitEnum ==
    /\ AppNew(<< >>)
    /\ disk = [f \in {} |-> Unreadable]
    /\ pc = "enum"
    /\ nwrites = 0
    /\ calls = << >>
    /\ session = NoSession
    /\ art_ops = << >>
    /\ decodes = [f \in {} |-> 0]
    /\ dir \in EnumDirs
    /\ enum_result = None
    /\ terminal = TermCooked

\* one call of get_mp3_files
EnumCall ==
    /\ pc = "enum"
    /\ \E order \in Orders(DOMAIN dir.entries) :
          enum_result' = Some(get_mp3_files(dir, order))
    /\ UNCHANGED <<appvars, disk, pc, nwrites, calls, session, dir>> /\ NoArt
    /\ NoTerm

\* between two calls an entry is created, replaced or removed, or the access
\* to the directory changes
DirChanged ==
    /\ pc = "enum"
    /\ dir.kind = "dir"
    /\ \/ \E n \in EnumNames, k \in EntryKinds :
             /\ n \in DOMAIN dir.entries
                \/ Cardinality(DOMAIN dir.entries) < MaxEntries
             /\ dir' = [dir EXCEPT !.entries =
                           [m \in DOMAIN dir.entries \cup {n} |->
                              IF m = n THEN k ELSE dir.entries[m]]]
       \/ \E n \in DOMAIN dir.entries :
             dir' = [dir EXCEPT !.entries =
                        [m \in DOMAIN dir.entries \ {n} |-> dir.entries[m]]]
       \/ dir' = [dir EXCEPT !.readable = ~dir.readable]
    /\ dir' # dir
    /\ enum_result' = None
    /\ UNCHANGED <<appvars, disk, pc, nwrites, calls, session>> /\ NoArt
    /\ NoTerm

NextEnum == EnumCall \/ DirChanged

SpecEnum == InitEnum /\ [][NextEnum]_vars

-----------------------------------------------------------------------------
(* src/main.rs: main, from setup_terminal to the exit of the process *)

\* the file names of the directory "." at startup, as read_dir yields them
StartNames == { <<"a", ".", "m", "p", "3">>, <<"b", ".", "m", "p", "3">> }

\* filename.to_string(): the String pushed for a file name
FileName(n) ==
    IF n = <<"a", ".", "m", "p", "3">> THEN "a.mp3" ELSE "b.mp3"

\* the directory "." at startup: its entries are regular files or entries
\* that read_dir reports as an error, and it may be unreadable as a whole
StartDirs ==
    { [kind |-> "dir", readable |-> r, entries |-> e] :
        r \in BOOLEAN,
        e \in UNION { [S -> {"file", "err"}] : S \in SUBSET StartNames } }

InitMain ==
    /\ AppNew(<< >>)
    /\ dir \in StartDirs
    /\ disk = [f \in { FileName(n) : n \in { m \in DOMAIN dir.entries :
                                                dir.entries[m] = "file" } } |->
                 IF f = "a.mp3" THEN [readable |-> TRUE, tag |-> InitTagA]
                 ELSE Unreadable]
    /\ pc = "main"
    /\ nwrites = 0
    /\ calls = << >>
    /\ session = NoSession
    /\ art_ops = << >>
    /\ decodes = [f \in DOMAIN disk |-> 0]
    /\ enum_result = None
    /\ terminal = TermCooked

\* setup_terminal: enable_raw_mode, EnterAlternateScreen and Terminal::new;
\* step says which of them fails ("none": all succeed), and main returns the
\* error of a failed one
SetupTerminal ==
    /\ pc = "main"
    /\ \E step \in {"raw", "alt", "new", "none"} :
          /\ terminal' = [raw     |-> step # "raw",
                          alt     |-> step \in {"new", "none"},
                          setup   |-> IF step = "none" THEN "ok" ELSE "failed",
                          restore |-> "none"]
          /\ pc' = IF step = "none" THEN "new" ELSE "exit"
    /\ UNCHANGED <<appvars, disk, nwrites, calls, session>> /\ NoArt /\ NoEnum

\* let app = App::new()?; the App is built as in AppNew, and an Err of
\* get_mp3_files(".") is returned by main
NewApp ==
    /\ pc = "new"
    /\ \E order \in Orders(DOMAIN dir.entries) :
          LET r  == get_mp3_files(dir, order)
              fs == [i \in 1..Len(r.val) |-> FileName(r.val[i])]
          IN
          /\ enum_result' = Some(r)
          /\ IF r.ok
             THEN /\ files' = fs
                  /\ selected_file' = 0
                  /\ selected_field' = 0
                  /\ input_buffer' = EmptyStr
                  /\ current_field' = None
                  /\ current_file' = IF fs = << >> THEN "" ELSE fs[1]
                  /\ mode' = "FileSelection"
                  /\ message' = MsgSelect
                  /\ album_art_cache' = [p \in {} |-> 0]
                  /\ pc' = "draw"
             ELSE /\ UNCHANGED appvars
                  /\ pc' = "exit"
    /\ UNCHANGED <<disk, nwrites, calls, session, dir>> /\ NoArt /\ NoTerm

\* restore_terminal(&mut terminal)? after run_app returned: disable_raw_mode
\* and LeaveAlternateScreen; step says which of them fails
RestoreTerminal ==
    /\ pc \in {"quit", "error"}
    /\ \E step \in {"raw", "alt", "none"} :
          terminal' = [raw     |-> step = "raw",
                       alt     |-> step # "none",
                       setup   |-> terminal.setup,
                       restore |-> IF step = "none" THEN "ok" ELSE "failed"]
    /\ pc' = "exit"
    /\ UNCHANGED <<appvars, disk, nwrites, calls, session>> /\ NoArt /\ NoEnum

NextMain ==
    \/ SetupTerminal \/ NewApp
    \/ Draw \/ DrawError \/ ReadKey \/ ReadOther \/ ReadError
    \/ RestoreTerminal

SpecMain == InitMain /\ [][NextMain]_vars

-----------------------------------------------------------------------------
(* Properties *)

\* the value Read reports for one field of a file: the field of the TagInfo of
\* tags_for_file, the Unknown sentinel when the file has no readable tags
FieldRead(d, path, field) ==
    LET t == tags_for_file(d, path) IN
    IF t = None THEN Unknown
    ELSE CASE field = "Song Name" -> t[1].title
           [] field = "Artist"    -> t[1].artist
           [] field = "Album"     -> t[1].album
           [] field = "Date"      -> t[1].year
           [] field = "Track"     -> t[1].track

\* a key event is being handled in the given mode
Handles(m, key) == pc = "read" /\ mode = m /\ HandleKey(key)

\* C1: in Editing, every character key c appends c to the input buffer,
\* leaves the mode Editing and changes nothing else.
C1_CharInputAppends ==
    [][\A c \in Chars :
          Handles("Editing", c) =>
             /\ input_buffer' = Append(input_buffer, c)
             /\ mode' = "Editing"
             /\ UNCHANGED <<files, selected_file, selected_field, current_field,
                            current_file, message, album_art_cache, disk>>]_vars

\* C1 as amended: in Editing, every character key other than 'b' appends the
\* character, leaves the mode Editing and changes nothing else; 'b' is the
\* back key: the mode becomes FileSelection, the status message is reset and
\* nothing else changes.
C1_CharInputAppendsExceptBack ==
    [][\A c \in Chars :
          Handles("Editing", c) =>
             IF c = "b"
             THEN /\ mode' = "FileSelection"
                  /\ message' = MsgSelect
                  /\ UNCHANGED <<files, selected_file, selected_field, input_buffer,
                                 current_field, current_file, album_art_cache, disk>>
             ELSE /\ input_buffer' = Append(input_buffer, c)
                  /\ mode' = "Editing"
                  /\ UNCHANGED <<files, selected_file, selected_field, current_field,
                                 current_file, message, album_art_cache, disk>>
      ]_vars

C1_Witness ==
    /\ mode = "FileSelection"
    /\ current_field = Some("Track")
    /\ input_buffer = <<"1", "q">>
    /\ message = MsgSelect

\* C2: an edit session exists (current_field is Some) exactly when the mode
\* is Editing.
C2_SessionIffEditing == (current_field # None) <=> (mode = "Editing")

\* C3: confirm in Editing calls modify_field exactly once, with the file and
\* field selected when the edit session was created and with the buffer, and
\* then the mode is FieldSelection, whether or not the write succeeded.
C3_ConfirmWritesOnce ==
    [][Handles("Editing", "Enter") =>
          /\ nwrites' = nwrites + 1
          /\ Len(calls') = 1
          /\ calls'[1].path = session.file
          /\ calls'[1].field = session.field
          /\ calls'[1].value = input_buffer
          /\ disk' = modify_field(disk, session.file, session.field,
                                  input_buffer, calls'[1].io).disk
          /\ mode' = "FieldSelection"]_vars

C3_Witness ==
    /\ calls # << >>
    /\ ~calls[1].ok
    /\ calls[1].path = "b.mp3"
    /\ calls[1].field = "Album"
    /\ calls[1].value = <<"q">>
    /\ mode = "FieldSelection"

\* C4: while the mode is FieldSelection or Editing no step changes the
\* selected file index or the current file.
C4_FileFixedOutsideFileSelection ==
    [][(mode \in {"FieldSelection", "Editing"}) =>
          UNCHANGED <<selected_file, current_file>>]_vars

C4_Witness ==
    /\ mode = "Editing"
    /\ selected_file = 1
    /\ current_file = "b.mp3"
    /\ selected_field = 2
    /\ input_buffer # EmptyStr

\* C5: the selected file index is below the number of files whenever there
\* are files, and the selected field index is always below 5.
C5_IndicesInRange ==
    /\ files # << >> => selected_file \in 0..(Len(files) - 1)
    /\ selected_field \in 0..4

C5_Witness ==
    /\ Len(files) = 2
    /\ selected_file = 1
    /\ selected_field = 4
    /\ mode = "FieldSelection"

\* C6: next from index i yields (i + 1) mod N and previous yields (i - 1) mod N,
\* for the files in FileSelection and for the 5 fields in FieldSelection.
C6_WrapAround ==
    [][/\ Handles("FileSelection", "Down") /\ files # << >>
            => selected_file' = (selected_file + 1) % Len(files)
       /\ Handles("FileSelection", "Up") /\ files # << >>
            => selected_file' = (selected_file - 1) % Len(files)
       /\ Handles("FieldSelection", "Down")
            => selected_field' = (selected_field + 1) % 5
       /\ Handles("FieldSelection", "Up")
            => selected_field' = (selected_field - 1) % 5
      ]_vars

C6_Witness ==
    /\ Len(files) = 2
    /\ selected_file = 1
    /\ selected_field = 4
    /\ mode = "FieldSelection"
    /\ pc = "draw"
    /\ current_file = "b.mp3"

\* C7: with an empty file list confirm in FileSelection changes nothing, the
\* mode stays FileSelection after every step and modify_field is never called.
C7_EmptyListStaysInFileSelection ==
    [][files = << >> =>
          /\ mode = "FileSelection" /\ mode' = "FileSelection"
          /\ nwrites' = 0
          /\ (Handles("FileSelection", "Enter") => UNCHANGED <<appvars, disk>>)
      ]_vars

C7_Witness == files = << >> /\ pc = "read" /\ mode = "FileSelection"

\* C8: confirm in FieldSelection enters Editing with the buffer equal to the
\* value Read reports for the selected field of the current file, and empty
\* when that value is absent or the tags are unreadable.
C8_BufferPrepopulatedFromRead ==
    [][Handles("FieldSelection", "Enter") =>
          /\ mode' = "Editing"
          /\ LET v == FieldRead(disk, current_file, fields[selected_field + 1])
             IN  input_buffer' = IF v = Unknown THEN EmptyStr ELSE v]_vars

\* C9: after a successful Write of V to Song Name, Artist or Album, Read of
\* that field yields V and every other field reads as before the write.
C9_WriteReadRoundTrip ==
    [][\A i \in 1..Len(calls') :
          LET c == calls'[i] IN
          (c.ok /\ c.field \in {"Song Name", "Artist", "Album"}) =>
             /\ FieldRead(disk', c.path, c.field) = c.value
             /\ \A g \in Range(fields) \ {c.field} :
                   FieldRead(disk', c.path, g) = FieldRead(disk, c.path, g)
      ]_vars

C9_Witness ==
    /\ calls # << >>
    /\ calls[1].ok
    /\ calls[1].field = "Artist"
    /\ calls[1].value = EmptyStr
    /\ FieldRead(disk, "a.mp3", "Artist") = EmptyStr
    /\ FieldRead(disk, "a.mp3", "Song Name") = <<"q">>

\* C10: a Write to Date or Track whose value does not parse leaves the value
\* read for that field as it was, and the call reports success (the only
\* failure of the call is that of writing the file back).
C10_UnparseableLeavesField ==
    [][\A i \in 1..Len(calls') :
          LET c == calls'[i]
              unparsed == \/ c.field = "Date" /\ ParseTimestamp(c.value) = None
                          \/ c.field = "Track" /\ ParseTrack(c.value) = None
          IN  unparsed =>
                 /\ FieldRead(disk', c.path, c.field) = FieldRead(disk, c.path, c.field)
                 /\ (c.io => c.ok)
      ]_vars

C10_Witness ==
    /\ calls # << >>
    /\ calls[1].ok
    /\ calls[1].field = "Date"
    /\ calls[1].value = <<"1", "q">>
    /\ FieldRead(disk, "a.mp3", "Date") = <<"0", "0", "1", "0">>

\* the track number a file stores, None when it has none or no readable tags
StoredTrack(d, path) ==
    LET r == ReadFromPath(d, path) IN IF r = None THEN None ELSE r[1].trck

\* C11: a Write to Track changes the stored track number only when the value
\* parses as an integer >= 1; every other value, "0" included, leaves it.
C11_TrackOnlyPositive ==
    [][\A i \in 1..Len(calls') :
          LET c == calls'[i]
              p == ParseTrack(c.value)
              positive == p # None /\ p[1] >= 1
          IN  (c.field = "Track" /\ ~positive) =>
                 StoredTrack(disk', c.path) = StoredTrack(disk, c.path)
      ]_vars

\* C12: a Write with a field name outside the catalog leaves the file's tag
\* state exactly as it was; a file without a tag container still has none.
C12_UnknownFieldNoOp ==
    [][\A i \in 1..Len(calls') :
          LET c == calls'[i] IN
          (c.field \notin Range(fields)) => disk' = disk
      ]_vars

\* C13: when the write of modify_field fails during Enter in Editing, the
\* message is the failure text, the mode becomes FieldSelection, and run_app
\* goes on to the next draw and key instead of returning the error.
C13_WriteFailureNotFatal ==
    [][(Handles("Editing", "Enter") /\ calls' # << >> /\ ~calls'[1].ok) =>
          /\ message' = MsgError
          /\ mode' = "FieldSelection"
          /\ current_field' = None
          /\ pc' = "draw"
      ]_vars

\* a failed write is behind, and the next edit session is already open
C13_Witness ==
    /\ message = MsgError
    /\ nwrites = 1
    /\ mode = "Editing"
    /\ pc = "read"

\* C14: Esc in Editing moves to FieldSelection, discards the edit session and
\* sets the cancelled message without calling modify_field: the tags of every
\* file are those of the moment the session was created, whatever was typed.
C14_CancelWritesNothing ==
    [][Handles("Editing", "Esc") =>
          /\ mode' = "FieldSelection"
          /\ current_field' = None
          /\ message' = MsgCancelled
          /\ calls' = << >>
          /\ nwrites' = nwrites
          /\ disk' = session.disk
      ]_vars

\* a session on the title "q" was cancelled after one more "q" was typed
C14_Witness ==
    /\ message = MsgCancelled
    /\ mode = "FieldSelection"
    /\ pc = "draw"
    /\ input_buffer = <<"q", "q">>
    /\ nwrites = 0
    /\ disk = InitDisk(files)

\* the file's tag container holds at least one embedded image
HoldsImage(d, path) ==
    LET r == ReadFromPath(d, path) IN r # None /\ r[1].pic # "none"

\* C15 as stated: once a Get on a path has returned a handle every later Get
\* returns the same handle without extracting or decoding again, and the
\* decode step has run at most once for every path that has a cache entry.
C15_GetIdempotent ==
    [][/\ \A i \in 1..Len(art_ops') :
            LET c == art_ops'[i] IN
            (c.op = "get" /\ c.path \in DOMAIN album_art_cache) =>
               /\ c.ret = Some(album_art_cache[c.path])
               /\ ~c.extracted /\ ~c.decoded
               /\ album_art_cache' = album_art_cache
       /\ \A p \in DOMAIN album_art_cache' : decodes'[p] <= 1
      ]_vars

\* C15 amended: once a Get on a path has returned a handle, every later Get on
\* it returns that handle without extracting or decoding, the entry is never
\* replaced or removed, and no decode runs for a path once it has an entry;
\* the decodes that failed before the entry existed are not bounded.
C15_GetIdempotentOnceCached ==
    [][/\ \A i \in 1..Len(art_ops') :
            LET c == art_ops'[i] IN
            (c.op = "get" /\ c.path \in DOMAIN album_art_cache) =>
               /\ c.ret = Some(album_art_cache[c.path])
               /\ ~c.extracted /\ ~c.decoded
               /\ album_art_cache' = album_art_cache
       /\ \A p \in DOMAIN album_art_cache :
             /\ p \in DOMAIN album_art_cache'
             /\ album_art_cache'[p] = album_art_cache[p]
             /\ decodes'[p] = decodes[p]
      ]_vars

\* a Get answered from the cache, for a file whose picture is gone by now
C15_Witness ==
    /\ art_ops # << >>
    /\ art_ops[1].op = "get"
    /\ ~art_ops[1].decoded
    /\ art_ops[1].ret = Some(1)
    /\ ~HoldsImage(disk, art_ops[1].path)

\* C16: a Get that finds no embedded image, or whose image does not decode,
\* returns absent and leaves the cache unchanged, and every Get on a path
\* without an entry extracts (and decodes what it finds) again; the cache
\* gets an entry for a path only from a Get on it that extracted and decoded.
C16_CacheOnlySuccesses ==
    [][/\ \A i \in 1..Len(art_ops') :
            LET c == art_ops'[i] IN
            (c.op = "get" /\ c.path \notin DOMAIN album_art_cache) =>
               /\ c.extracted
               /\ c.decoded <=> HoldsImage(disk, c.path)
               /\ (extract_album_art_bytes(disk, c.path) # Some("good")) =>
                     (c.ret = None /\ album_art_cache' = album_art_cache)
       /\ \A p \in DOMAIN album_art_cache' \ DOMAIN album_art_cache :
             \E i \in 1..Len(art_ops') :
                LET c == art_ops'[i] IN
                /\ c.op = "get" /\ c.path = p
                /\ c.extracted /\ c.decoded
                /\ c.ret = Some(album_art_cache'[p])
                /\ extract_album_art_bytes(disk, p) = Some("good")
       /\ \A p \in DOMAIN album_art_cache' : decodes'[p] >= 1
      ]_vars

\* a second Get on a path decoded again, and failed again
C16_Witness ==
    /\ art_ops # << >>
    /\ art_ops[1].op = "get"
    /\ art_ops[1].decoded
    /\ art_ops[1].ret = None
    /\ decodes[art_ops[1].path] = 2
    /\ art_ops[1].path \notin DOMAIN album_art_cache

\* C17 as stated: has_album_art is true iff the file's tag container holds
\* an embedded image at the moment of the call.
C17_HasIffHoldsImage ==
    [][\A i \in 1..Len(art_ops') :
          LET c == art_ops'[i] IN
          (c.op = "has") => (c.has <=> HoldsImage(disk, c.path))
      ]_vars

\* C17 amended: has_album_art is true iff the cache has an entry for the path
\* or the file's tag container holds an embedded image at the moment of the
\* call; without an entry it is the answer of the file alone.
C17_HasIffCachedOrHoldsImage ==
    [][\A i \in 1..Len(art_ops') :
          LET c == art_ops'[i] IN
          (c.op = "has") =>
             /\ c.has <=> (c.path \in DOMAIN album_art_cache
                           \/ HoldsImage(disk, c.path))
             /\ (c.path \notin DOMAIN album_art_cache) =>
                   (c.has <=> HoldsImage(disk, c.path))
             /\ UNCHANGED <<album_art_cache, decodes>>
      ]_vars

\* has_album_art said yes for a cached path whose file holds no image now
C17_Witness ==
    /\ art_ops # << >>
    /\ art_ops[1].op = "has"
    /\ art_ops[1].has
    /\ art_ops[1].path \in DOMAIN album_art_cache
    /\ ~HoldsImage(disk, art_ops[1].path)

\* the names of the matching files of a directory: its regular files with
\* the extension mp3
Matching(d) ==
    { n \in DOMAIN d.entries :
        d.entries[n] = "file" /\ Extension(n) = Some(<<"m", "p", "3">>) }

\* a step that is a call of get_mp3_files
Enumerated == pc = "enum" /\ dir' = dir /\ enum_result' # None

\* C18: a successful get_mp3_files returns the names of the matching files
\* of the directory in strictly increasing order (sorted, no duplicates), and
\* a run that follows another with no change of the directory in between
\* returns what that one returned, whatever order read_dir yields.
C18_SortedUniqueDeterministic ==
    [][Enumerated =>
          LET r == enum_result'[1] IN
          /\ r.ok =>
                /\ \A i \in 1..Len(r.val) : \A j \in 1..Len(r.val) :
                      (i < j) => StrLess(r.val[i], r.val[j])
                /\ Range(r.val) = Matching(dir)
          /\ (enum_result # None) => enum_result' = enum_result
      ]_vars

\* three matching files among which B.mp3 < a.mp3 < ab.mp3
C18_Witness ==
    /\ enum_result # None
    /\ enum_result[1].ok
    /\ Len(enum_result[1].val) = 3
    /\ enum_result[1].val[1] = <<"B", ".", "m", "p", "3">>
    /\ enum_result[1].val[3] = <<"a", "b", ".", "m", "p", "3">>

\* C19 as stated: get_mp3_files fails when the directory cannot be opened or
\* read, a missing path and a path that is no directory included, and it
\* returns the empty list only for a readable directory without matching
\* files.
C19_FailsUnlessReadableDir ==
    [][Enumerated =>
          LET r == enum_result'[1] IN
          /\ (dir.kind # "dir" \/ ~dir.readable) => ~r.ok
          /\ (r.ok /\ r.val = << >>) =>
                (dir.kind = "dir" /\ dir.readable /\ Matching(dir) = {})
      ]_vars

\* C19 amended: get_mp3_files fails exactly when the path is a directory that
\* cannot be opened or one of whose entries read_dir reports as an error; for
\* a missing path and for a path that is no directory it returns the empty
\* list, as it does for a directory read to the end without matching files.
C19_FailsOnlyOnUnreadableDir ==
    [][Enumerated =>
          LET r == enum_result'[1] IN
          /\ ~r.ok <=> /\ dir.kind = "dir"
                       /\ \/ ~dir.readable
                          \/ \E n \in DOMAIN dir.entries : dir.entries[n] = "err"
          /\ (dir.kind # "dir") => r = Ok(<< >>)
          /\ (r.ok /\ r.val = << >>) => (dir.kind # "dir" \/ Matching(dir) = {})
      ]_vars

\* the empty list was returned for a missing path
C19_Witness ==
    /\ dir.kind = "missing"
    /\ enum_result = Some(Ok(<< >>))

\* C20: get_mp3_files does not fail because of an unreadable entry of a
\* directory it can open: the entry is skipped and the matching files are
\* returned.
C20_UnreadableEntrySkipped ==
    [][(Enumerated /\ dir.kind = "dir" /\ dir.readable) =>
          LET r == enum_result'[1] IN
          /\ r.ok
          /\ Range(r.val) = Matching(dir)
      ]_vars

\* C23: whenever the file list is non-empty, the current file name used for
\* reads and writes is the entry of the file list at the selected file index.
C23_CurrentFileIsSelected ==
    (files # << >>) =>
        /\ selected_file < Len(files)
        /\ current_file = files[selected_file + 1]

\* a commit has just written to the second file, the one highlighted
C23_Witness ==
    /\ selected_file = 1
    /\ calls # << >>
    /\ calls[1].path = "b.mp3"
    /\ files[selected_file + 1] = "b.mp3"

\* C21: run_app alternates render and input.  A key is read only right after
\* a render; a render changes nothing but the artwork cache and performs no
\* write; every change of the App made by an intent, and its modify_field
\* call, happen in the one step that handles the key, and the step after it
\* is a render (or the end of the loop).
C21_RenderInputAlternate ==
    [][/\ (pc' = "read") => (pc = "draw")
       /\ (pc = "draw") =>
             /\ pc' \in {"read", "error"}
             /\ calls' = << >> /\ nwrites' = nwrites
             /\ UNCHANGED <<files, selected_file, selected_field, input_buffer,
                            current_field, current_file, mode, message, disk>>
       /\ (pc = "read") =>
             /\ pc' \in {"draw", "quit", "error"}
             /\ art_ops' = << >>
             /\ UNCHANGED album_art_cache
       /\ (pc \in {"quit", "error"}) => UNCHANGED vars
      ]_vars

\* the render that follows a commit: the write is done, the artwork was asked
\* for, and the next key is awaited
C21_Witness ==
    /\ pc = "read"
    /\ nwrites = 1
    /\ mode = "FieldSelection"
    /\ art_ops # << >>
    /\ message # MsgSelect

\* some lock taken before the i-th operation of the step is still held there
LockHeldAt(ops, i) ==
    \E k \in 1..(i - 1) :
        /\ ops[k].op = "lock"
        /\ \A m \in (k + 1)..(i - 1) :
              ~(ops[m].op = "unlock" /\ ops[m].ret = ops[k].ret)

\* C22: the lock of a handle is taken once per render of it, right after the
\* load_album_art call that returned the handle, and released right after
\* the render; no has_album_art or load_album_art call (tag read, decode)
\* runs while a lock is held, and no lock is held when the step ends.
C22_LockScopedToRender ==
    [][/\ \A i \in 1..Len(art_ops') :
            LET c == art_ops'[i] IN
            /\ (c.op = "lock") =>
                  /\ i > 1 /\ art_ops'[i - 1].op = "get"
                  /\ art_ops'[i - 1].ret = c.ret
                  /\ i + 2 <= Len(art_ops')
                  /\ art_ops'[i + 1].op = "render" /\ art_ops'[i + 1].ret = c.ret
                  /\ art_ops'[i + 2].op = "unlock" /\ art_ops'[i + 2].ret = c.ret
            /\ (c.op = "render") =>
                  /\ i > 1 /\ art_ops'[i - 1].op = "lock"
                  /\ art_ops'[i - 1].ret = c.ret
            /\ (c.op \in {"has", "get"}) => ~LockHeldAt(art_ops', i)
       /\ ~LockHeldAt(art_ops', Len(art_ops') + 1)
      ]_vars

\* a render of a handle that came from the cache: the lock is taken anew
C22_Witness ==
    /\ pc = "read"
    /\ Len(art_ops) = 5
    /\ art_ops[2].op = "get"
    /\ ~art_ops[2].decoded
    /\ art_ops[3].op = "lock"
    /\ art_ops[5].op = "unlock"

\* C24: once setup_terminal has succeeded, restore_terminal has run when the
\* process exits, and the terminal is back in cooked mode on the main screen
\* if it succeeded: after q, after an error of run_app, and after an error
\* of App::new.
C24_TerminalRestoredOnExit ==
    (pc = "exit" /\ terminal.setup = "ok") =>
        /\ terminal.restore # "none"
        /\ (terminal.restore = "ok") => (~terminal.raw /\ ~terminal.alt)

====
